---- MODULE Spec2Model ----
(***************************************************************************)
(* Model of assess_patients.py: the paginated retrieval loop               *)
(* (fetch_all_patients), the three field scorers, the aggregation loop     *)
(* (process_patients) and the orchestration in main.                       *)
(*                                                                         *)
(* Numbers are Python floats.  A float is modelled as a fixed-point value  *)
(* in hundredths (99.55 is 9955, 140 is 14000) or as NaN, with Python's    *)
(* comparison semantics (every comparison with NaN is false).              *)
(* A string is modelled by its sequence of lexemes: a numeric literal, a   *)
(* run of whitespace, a '/' or a non-numeric word.                         *)
(***************************************************************************)
EXTENDS Integers, Sequences, FiniteSets, TLC

VARIABLES
    pc, page, all_patients, requests, responses, scored, submits, payload,
    bp_in, bp_out,
    temp_in, temp_out, fever_out,
    patients, idx, high_risk, fever, data_quality, proc_pc, returned

vars == <<pc, page, all_patients, requests, responses, scored, submits, payload,
          bp_in, bp_out, temp_in, temp_out, fever_out,
          patients, idx, high_risk, fever, data_quality, proc_pc, returned>>

mainVars == <<pc, page, all_patients, requests, responses, scored, submits, payload>>
bpVars   == <<bp_in, bp_out>>
tempVars == <<temp_in, temp_out, fever_out>>
procVars == <<patients, idx, high_risk, fever, data_quality, proc_pc, returned>>

(***************************************************************************)
(* Bounds                                                                  *)
(***************************************************************************)
\* longest string, in lexemes
MaxLen == 3
\* longest patient list given to process_patients
MaxPatients == 2
\* largest page index the server is asked for
MaxPages == 3
\* longest data array of one page
MaxPageLen == 1

(***************************************************************************)
(* Python floats                                                           *)
(***************************************************************************)
F(v) == [nan |-> FALSE, v |-> v]
NaN  == [nan |-> TRUE,  v |-> 0]

FGe(a, b) == ~a.nan /\ ~b.nan /\ a.v >= b.v
FLe(a, b) == ~a.nan /\ ~b.nan /\ a.v <= b.v
FLt(a, b) == ~a.nan /\ ~b.nan /\ a.v < b.v
FGt(a, b) == ~a.nan /\ ~b.nan /\ a.v > b.v

(***************************************************************************)
(* Strings as lexeme sequences                                             *)
(***************************************************************************)
NumTok(f)  == [t |-> "num", f |-> f, w |-> ""]
WsTok      == [t |-> "ws", f |-> NaN, w |-> " "]
SlashTok   == [t |-> "slash", f |-> NaN, w |-> "/"]
WordTok(w) == [t |-> "word", f |-> NaN, w |-> w]

\* two adjacent alphanumeric lexemes would be a single lexeme
IsAlnum(tok) == tok.t \in {"num", "word"}
WellLexed(s) == \A i \in 1..(Len(s) - 1) : ~(IsAlnum(s[i]) /\ IsAlnum(s[i + 1]))

Strings(alphabet) ==
    {s \in UNION {[1..n -> alphabet] : n \in 0..MaxLen} : WellLexed(s)}

(***************************************************************************)
(* Untyped JSON values as the program receives them                        *)
(***************************************************************************)
PyNone    == [kind |-> "none",   f |-> NaN, toks |-> <<>>]
PyNum(f)  == [kind |-> "num",    f |-> f,   toks |-> <<>>]
PyBigInt  == [kind |-> "bigint", f |-> NaN, toks |-> <<>>]
PyList    == [kind |-> "list",   f |-> NaN, toks |-> <<>>]
PyStr(s)  == [kind |-> "str",    f |-> NaN, toks |-> s]

\* truth value of an object (`not x` is its negation)
py_truthy_none_only(x) == x.kind # "none"
py_truthy(x) ==
    CASE x.kind = "none" -> FALSE
      [] x.kind = "str"  -> Len(x.toks) > 0
      [] x.kind = "num"  -> x.f.nan \/ x.f.v # 0
      [] OTHER           -> TRUE

isinstance_str(x) == x.kind = "str"

\* str.strip(): drop leading and trailing whitespace
RECURSIVE lstrip(_)
lstrip(s) == IF Len(s) > 0 /\ s[1].t = "ws" THEN lstrip(Tail(s)) ELSE s

RECURSIVE rstrip(_)
rstrip(s) ==
    IF Len(s) > 0 /\ s[Len(s)].t = "ws" THEN rstrip(SubSeq(s, 1, Len(s) - 1)) ELSE s

strip(s) == rstrip(lstrip(s))

\* str.split("/")
RECURSIVE split(_)
split(s) ==
    IF \A i \in 1..Len(s) : s[i].t # "slash"
    THEN <<s>>
    ELSE LET i == CHOOSE j \in 1..Len(s) :
                      s[j].t = "slash" /\ \A m \in 1..(j - 1) : s[m].t # "slash"
         IN <<SubSeq(s, 1, i - 1)>> \o split(SubSeq(s, i + 1, Len(s)))

\* float(x): the converted value or the exception raised
FloatOk(f)  == [exc |-> "none", f |-> f]
FloatExc(e) == [exc |-> e, f |-> NaN]

float_of_str(s) ==
    LET body == strip(s)
    IN IF Len(body) = 1 /\ body[1].t = "num"
       THEN FloatOk(body[1].f)
       ELSE FloatExc("ValueError")

py_float(x) ==
    CASE x.kind = "num"    -> FloatOk(x.f)
      [] x.kind = "str"    -> float_of_str(x.toks)
      [] x.kind = "bigint" -> FloatExc("OverflowError")
      [] OTHER             -> FloatExc("TypeError")

(***************************************************************************)
(* Field scorers                                                           *)
(***************************************************************************)
Res(score, valid) == [exc |-> "none", score |-> score, valid |-> valid]
Raise(e)          == [exc |-> e, score |-> 0, valid |-> FALSE]
NotRun            == [exc |-> "notrun", score |-> 0, valid |-> FALSE]

\* the threshold ladder of calculate_bp_score
bp_classify_strict(systolic, diastolic) ==
    IF FGt(systolic, F(14000)) \/ FGt(diastolic, F(9000)) THEN Res(4, TRUE)
    ELSE IF FGt(systolic, F(13000)) \/ FGt(diastolic, F(8000)) THEN Res(3, TRUE)
    ELSE IF FLe(F(12000), systolic) /\ FLe(systolic, F(12900)) /\ FLt(diastolic, F(8000))
         THEN Res(2, TRUE)
    ELSE IF FLt(systolic, F(12000)) /\ FLt(diastolic, F(8000)) THEN Res(1, TRUE)
    ELSE Res(0, TRUE)

bp_classify_stage1_and(systolic, diastolic) ==
    IF FGe(systolic, F(14000)) \/ FGe(diastolic, F(9000)) THEN Res(4, TRUE)
    ELSE IF FGe(systolic, F(13000)) /\ FGe(diastolic, F(8000)) THEN Res(3, TRUE)
    ELSE IF FLe(F(12000), systolic) /\ FLe(systolic, F(12900)) /\ FLt(diastolic, F(8000))
         THEN Res(2, TRUE)
    ELSE IF FLt(systolic, F(12000)) /\ FLt(diastolic, F(8000)) THEN Res(1, TRUE)
    ELSE Res(0, TRUE)

bp_classify(systolic, diastolic) ==
    IF FGe(systolic, F(14000)) \/ FGe(diastolic, F(9000)) THEN Res(4, TRUE)
    ELSE IF FGe(systolic, F(13000)) \/ FGe(diastolic, F(8000)) THEN Res(3, TRUE)
    ELSE IF FLe(F(12000), systolic) /\ FLe(systolic, F(12900)) /\ FLt(diastolic, F(8000))
         THEN Res(2, TRUE)
    ELSE IF FLt(systolic, F(12000)) /\ FLt(diastolic, F(8000)) THEN Res(1, TRUE)
    ELSE Res(0, TRUE)

calculate_bp_score(blood_pressure) ==
    IF ~py_truthy(blood_pressure) \/ ~isinstance_str(blood_pressure)
    THEN Res(0, FALSE)
    ELSE LET parts == split(blood_pressure.toks)
         IN IF Len(parts) # 2
            THEN Res(0, FALSE)
            ELSE IF Len(strip(parts[1])) = 0 \/ Len(strip(parts[2])) = 0
            THEN Res(0, FALSE)
            ELSE LET systolic  == float_of_str(parts[1])
                     diastolic == float_of_str(parts[2])
                 IN IF systolic.exc # "none" \/ diastolic.exc # "none"
                    THEN Res(0, FALSE)
                    ELSE bp_classify(systolic.f, diastolic.f)

calculate_temp_score(temperature) ==
    LET temp == py_float(temperature)
    IN IF temp.exc \in {"TypeError", "ValueError"} THEN Res(0, FALSE)
       ELSE IF temp.exc # "none" THEN Raise(temp.exc)
       ELSE IF FLe(temp.f, F(9950)) THEN Res(0, TRUE)
       ELSE IF FLe(F(9960), temp.f) /\ FLe(temp.f, F(10090)) THEN Res(1, TRUE)
       ELSE Res(2, TRUE)

\* has_fever yields a boolean, carried in the field valid
has_fever(temperature) ==
    LET temp == py_float(temperature)
    IN IF temp.exc \in {"TypeError", "ValueError"} THEN Res(0, FALSE)
       ELSE IF temp.exc # "none" THEN Raise(temp.exc)
       ELSE Res(0, FGe(temp.f, F(9960)))

calculate_age_score(age) ==
    LET age_val == py_float(age)
    IN IF age_val.exc \in {"TypeError", "ValueError"} THEN Res(0, FALSE)
       ELSE IF age_val.exc # "none" THEN Raise(age_val.exc)
       ELSE IF FGt(age_val.f, F(6500)) THEN Res(2, TRUE)
       ELSE Res(1, TRUE)

(***************************************************************************)
(* Idle values of the variables a specification does not use               *)
(***************************************************************************)
IdleMain ==
    /\ pc = "idle"
    /\ page = 0
    /\ all_patients = <<>>
    /\ requests = <<>>
    /\ responses = <<>>
    /\ scored = FALSE
    /\ submits = 0
    /\ payload = <<>>

IdleBP == bp_in = PyNone /\ bp_out = NotRun

IdleTemp == temp_in = PyNone /\ temp_out = NotRun /\ fever_out = NotRun

IdleProc ==
    /\ patients = <<>>
    /\ idx = 0
    /\ high_risk = {}
    /\ fever = {}
    /\ data_quality = {}
    /\ proc_pc = "idle"
    /\ returned = <<>>

(***************************************************************************)
(* Specification SpecBP: calculate_bp_score on every bounded input         *)
(***************************************************************************)
BPNumbers == {F(7500), F(7900), F(8000), F(9000), F(11900), F(12000),
              F(12500), F(12900), F(12950), F(13000), F(14000), NaN}

BPAlphabet == {NumTok(f) : f \in BPNumbers} \cup {WsTok, SlashTok, WordTok("abc")}

BPInputs ==
    {PyNone, PyNum(F(12000)), PyBigInt, PyList}
        \cup {PyStr(s) : s \in Strings(BPAlphabet)}

InitBP ==
    /\ bp_in \in BPInputs
    /\ bp_out = NotRun
    /\ IdleMain /\ IdleTemp /\ IdleProc

ScoreBP ==
    /\ bp_out = NotRun
    /\ bp_out' = calculate_bp_score(bp_in)
    /\ UNCHANGED <<bp_in, mainVars, tempVars, procVars>>

NextBP == ScoreBP

SpecBP == InitBP /\ [][NextBP]_vars

(***************************************************************************)
(* Specification SpecTemp: calculate_temp_score and has_fever              *)
(***************************************************************************)
TempNumbers == {F(9800), F(9950), F(9955), F(9960), F(10000), F(10090),
                F(10095), F(10100), F(10200), NaN}

TempAlphabet ==
    {NumTok(f) : f \in {F(9950), F(9955), F(9960), F(10090), F(10100), NaN}}
        \cup {WsTok, WordTok("high")}

TempInputs ==
    {PyNone, PyBigInt, PyList}
        \cup {PyNum(f) : f \in TempNumbers}
        \cup {PyStr(s) : s \in Strings(TempAlphabet)}

InitTemp ==
    /\ temp_in \in TempInputs
    /\ temp_out = NotRun
    /\ fever_out = NotRun
    /\ IdleMain /\ IdleBP /\ IdleProc

ScoreTemp ==
    /\ temp_out = NotRun
    /\ temp_out' = calculate_temp_score(temp_in)
    /\ UNCHANGED <<temp_in, fever_out, mainVars, bpVars, procVars>>

CheckFever ==
    /\ fever_out = NotRun
    /\ fever_out' = has_fever(temp_in)
    /\ UNCHANGED <<temp_in, temp_out, mainVars, bpVars, procVars>>

NextTemp == ScoreTemp \/ CheckFever

SpecTemp == InitTemp /\ [][NextTemp]_vars

(***************************************************************************)
(* Claims about the blood-pressure scorer                                  *)
(***************************************************************************)
\* a part that is one numeric literal, possibly padded with whitespace
IsNumericPart(p) ==
    \E i \in 1..Len(p) :
        /\ p[i].t = "num"
        /\ \A j \in 1..Len(p) : j # i => p[j].t = "ws"

NumberOf(p) == (CHOOSE i \in 1..Len(p) : p[i].t = "num")

SlashAt(x, k) ==
    /\ k \in 1..Len(x.toks)
    /\ x.toks[k].t = "slash"
    /\ IsNumericPart(SubSeq(x.toks, 1, k - 1))
    /\ IsNumericPart(SubSeq(x.toks, k + 1, Len(x.toks)))

ParsesAsSD(x) == x.kind = "str" /\ \E k \in 1..Len(x.toks) : SlashAt(x, k)

SysOf(x) ==
    LET k == CHOOSE k \in 1..Len(x.toks) : SlashAt(x, k)
        p == SubSeq(x.toks, 1, k - 1)
    IN p[NumberOf(p)].f

DiaOf(x) ==
    LET k == CHOOSE k \in 1..Len(x.toks) : SlashAt(x, k)
        p == SubSeq(x.toks, k + 1, Len(x.toks))
    IN p[NumberOf(p)].f

\* the ordered rule table as the specification states it
RuleTable(S, D) ==
    CASE FGe(S, F(14000)) \/ FGe(D, F(9000)) -> 4
      [] ~(FGe(S, F(14000)) \/ FGe(D, F(9000)))
         /\ (FGe(S, F(13000)) \/ FGe(D, F(8000))) -> 3
      [] OTHER ->
           IF FGe(S, F(12000)) /\ FLe(S, F(12900)) /\ FLt(D, F(8000)) THEN 2
           ELSE IF FLt(S, F(12000)) /\ FLt(D, F(8000)) THEN 1
           ELSE 0

\* C5: a string that parses as S/D is valid and gets the score of the first
\* matching rule (S >= 140 gives 4 for every D, 119/79 gives 1, 125/75 gives
\* 2); every other input gives (0, invalid).
C5_BpRuleTable ==
    bp_out # NotRun =>
        IF ParsesAsSD(bp_in)
        THEN /\ bp_out = Res(RuleTable(SysOf(bp_in), DiaOf(bp_in)), TRUE)
             /\ FGe(SysOf(bp_in), F(14000)) => bp_out.score = 4
             /\ (SysOf(bp_in) = F(11900) /\ DiaOf(bp_in) = F(7900)) => bp_out.score = 1
             /\ (SysOf(bp_in) = F(12500) /\ DiaOf(bp_in) = F(7500)) => bp_out.score = 2
        ELSE bp_out = Res(0, FALSE)

C5_Witness ==
    /\ bp_in = PyStr(<<NumTok(F(12500)), SlashTok, NumTok(F(7500))>>)
    /\ bp_out = Res(2, TRUE)

InFallthroughExample(x) ==
    /\ ParsesAsSD(x)
    /\ FLt(SysOf(x), F(12000))
    /\ FGe(DiaOf(x), F(8000))
    /\ FLt(DiaOf(x), F(9000))

\* C6 as claimed: S < 120 with 80 <= D < 90 reaches the final branch and
\* scores (0, valid).
C6_Original ==
    (bp_out # NotRun /\ InFallthroughExample(bp_in)) => bp_out = Res(0, TRUE)

\* C6 amended: S < 120 with 80 <= D < 90 is caught by the second rule and
\* scores (3, valid); the final branch (0, valid) is reached only when
\* 129 < S < 130 with D < 80, or when S or D is NaN.
C6_FallthroughAmended ==
    bp_out # NotRun =>
        /\ InFallthroughExample(bp_in) => bp_out = Res(3, TRUE)
        /\ bp_out = Res(0, TRUE) =>
              /\ ParsesAsSD(bp_in)
              /\ \/ SysOf(bp_in).nan
                 \/ DiaOf(bp_in).nan
                 \/ /\ FGt(SysOf(bp_in), F(12900))
                    /\ FLt(SysOf(bp_in), F(13000))
                    /\ FLt(DiaOf(bp_in), F(8000))

C6_Witness ==
    /\ bp_in = PyStr(<<NumTok(F(11900)), SlashTok, NumTok(F(8000))>>)
    /\ bp_out = Res(3, TRUE)

(***************************************************************************)
(* Claims about the temperature scorer                                     *)
(***************************************************************************)
Coerces(x) == py_float(x).exc = "none"
Coerced(x) == py_float(x).f

\* C7: a coercible temperature is valid and scores 0 up to 99.5, 1 from
\* 99.6 to 100.9 and 2 from 101.0; has_fever is true exactly from 99.6; a
\* value that does not coerce gives (0, invalid) and no fever.
C7_TempScore ==
    (temp_out # NotRun /\ fever_out # NotRun) =>
        IF Coerces(temp_in)
        THEN /\ temp_out.exc = "none" /\ temp_out.valid
             /\ FLe(Coerced(temp_in), F(9950)) => temp_out.score = 0
             /\ (FGe(Coerced(temp_in), F(9960)) /\ FLe(Coerced(temp_in), F(10090)))
                    => temp_out.score = 1
             /\ FGe(Coerced(temp_in), F(10100)) => temp_out.score = 2
             /\ fever_out = Res(0, FGe(Coerced(temp_in), F(9960)))
        ELSE /\ temp_out = Res(0, FALSE)
             /\ fever_out = Res(0, FALSE)

\* C10: for every temperature that coerces to a number, has_fever is true
\* if and only if the temperature contribution is at least 1.
C10_FeverIffContribution ==
    (temp_out # NotRun /\ fever_out # NotRun /\ Coerces(temp_in) /\ ~Coerced(temp_in).nan) =>
        (fever_out.valid <=> temp_out.score >= 1)

(***************************************************************************)
(* process_patients                                                        *)
(***************************************************************************)
Patient(id, bp, temp, age) ==
    [patient_id |-> id, blood_pressure |-> bp, temperature |-> temp, age |-> age]

\* set.add(x) raises TypeError for an unhashable x
hashable(x) == x.kind # "list"

Acc(hr, fv, dq) == [exc |-> "none", high_risk |-> hr, fever |-> fv, data_quality |-> dq]
Abort(acc, e)   == [acc EXCEPT !.exc = e]

\* one iteration of the loop over the patients
ProcessRecord_elif(acc, patient) ==
    LET patient_id == patient.patient_id
        bp    == calculate_bp_score(patient.blood_pressure)
        temp  == calculate_temp_score(patient.temperature)
        age   == calculate_age_score(patient.age)
    IN IF ~py_truthy(patient_id) THEN acc
       ELSE IF temp.exc # "none" THEN Abort(acc, temp.exc)
       ELSE IF age.exc # "none" THEN Abort(acc, age.exc)
       ELSE LET flag_dq    == ~bp.valid \/ ~temp.valid \/ ~age.valid
                flag_fever == ~flag_dq /\ has_fever(patient.temperature).valid
                flag_hr    == ~flag_dq /\ ~flag_fever
                                 /\ bp.score + temp.score + age.score >= 4
            IN IF (flag_dq \/ flag_fever \/ flag_hr) /\ ~hashable(patient_id)
               THEN Abort(acc, "TypeError")
               ELSE Acc(IF flag_hr THEN acc.high_risk \cup {patient_id} ELSE acc.high_risk,
                        IF flag_fever THEN acc.fever \cup {patient_id} ELSE acc.fever,
                        IF flag_dq THEN acc.data_quality \cup {patient_id}
                                   ELSE acc.data_quality)

ProcessRecord_lastwins(acc, patient) ==
    LET patient_id == patient.patient_id
        bp    == calculate_bp_score(patient.blood_pressure)
        temp  == calculate_temp_score(patient.temperature)
        age   == calculate_age_score(patient.age)
    IN IF ~py_truthy(patient_id) THEN acc
       ELSE IF temp.exc # "none" THEN Abort(acc, temp.exc)
       ELSE IF age.exc # "none" THEN Abort(acc, age.exc)
       ELSE LET flag_dq    == ~bp.valid \/ ~temp.valid \/ ~age.valid
                flag_fever == has_fever(patient.temperature).valid
                flag_hr    == bp.score + temp.score + age.score >= 4
            IN IF (flag_dq \/ flag_fever \/ flag_hr) /\ ~hashable(patient_id)
               THEN Abort(acc, "TypeError")
               ELSE Acc(IF flag_hr THEN acc.high_risk \cup {patient_id}
                                   ELSE acc.high_risk \ {patient_id},
                        IF flag_fever THEN acc.fever \cup {patient_id} ELSE acc.fever,
                        IF flag_dq THEN acc.data_quality \cup {patient_id}
                                   ELSE acc.data_quality)

ProcessRecord(acc, patient) ==
    LET patient_id == patient.patient_id
        bp    == calculate_bp_score(patient.blood_pressure)
        temp  == calculate_temp_score(patient.temperature)
        age   == calculate_age_score(patient.age)
    IN IF ~py_truthy(patient_id) THEN acc
       ELSE IF temp.exc # "none" THEN Abort(acc, temp.exc)
       ELSE IF age.exc # "none" THEN Abort(acc, age.exc)
       ELSE LET flag_dq    == ~bp.valid \/ ~temp.valid \/ ~age.valid
                flag_fever == has_fever(patient.temperature).valid
                flag_hr    == bp.score + temp.score + age.score >= 4
            IN IF (flag_dq \/ flag_fever \/ flag_hr) /\ ~hashable(patient_id)
               THEN Abort(acc, "TypeError")
               ELSE Acc(IF flag_hr THEN acc.high_risk \cup {patient_id} ELSE acc.high_risk,
                        IF flag_fever THEN acc.fever \cup {patient_id} ELSE acc.fever,
                        IF flag_dq THEN acc.data_quality \cup {patient_id}
                                   ELSE acc.data_quality)

\* the whole loop: the sets built, or the first exception raised
RECURSIVE process_loop(_, _)
process_loop(acc, list) ==
    IF Len(list) = 0 \/ acc.exc # "none" THEN acc
    ELSE process_loop(ProcessRecord(acc, Head(list)), Tail(list))

process_patients(list) == process_loop(Acc({}, {}, {}), list)

\* list(a_set): every element once, in an order the program does not fix
ListsOf(S) ==
    {l \in [1..Cardinality(S) -> S] : \A i, j \in 1..Cardinality(S) : l[i] = l[j] => i = j}

(***************************************************************************)
(* Specification SpecProc: process_patients on every bounded patient list  *)
(***************************************************************************)
StrOf(w) == PyStr(<<WordTok(w)>>)
BpOf(s, d) == PyStr(<<NumTok(F(s)), SlashTok, NumTok(F(d))>>)

PatientIds == {PyNone, PyStr(<<>>), StrOf("p1"), StrOf("p2"), PyList}

\* <<blood_pressure, temperature, age>>
Vitals ==
    { <<BpOf(15000, 9500), PyNum(F(9800)),  PyNum(F(7000))>>,
      <<PyNone,            PyNum(F(10200)), PyNum(F(3000))>>,
      <<BpOf(15000, 9500), PyNone,          PyNum(F(3000))>>,
      <<BpOf(11900, 7900), PyNum(F(9800)),  PyNum(F(3000))>>,
      <<BpOf(11900, 7900), PyNum(F(9800)),  PyBigInt>>,
      <<BpOf(11900, 7900), PyNum(F(9960)),  StrOf("N/A")>> }

PatientRecords == {Patient(id, v[1], v[2], v[3]) : id \in PatientIds, v \in Vitals}

InitProc ==
    /\ patients \in UNION {[1..n -> PatientRecords] : n \in 0..MaxPatients}
    /\ idx = 1
    /\ high_risk = {}
    /\ fever = {}
    /\ data_quality = {}
    /\ proc_pc = "loop"
    /\ returned = <<>>
    /\ IdleMain /\ IdleBP /\ IdleTemp

Iterate ==
    /\ proc_pc = "loop"
    /\ idx <= Len(patients)
    /\ LET acc == ProcessRecord(Acc(high_risk, fever, data_quality), patients[idx])
       IN /\ high_risk' = acc.high_risk
          /\ fever' = acc.fever
          /\ data_quality' = acc.data_quality
          /\ IF acc.exc # "none"
             THEN proc_pc' = "raised" /\ idx' = idx
             ELSE proc_pc' = "loop" /\ idx' = idx + 1
    /\ UNCHANGED <<patients, returned, mainVars, bpVars, tempVars>>

Return ==
    /\ proc_pc = "loop"
    /\ idx > Len(patients)
    /\ \E hr \in ListsOf(high_risk), fv \in ListsOf(fever), dq \in ListsOf(data_quality) :
          returned' = <<hr, fv, dq>>
    /\ proc_pc' = "done"
    /\ UNCHANGED <<patients, idx, high_risk, fever, data_quality, mainVars, bpVars, tempVars>>

NextProc == Iterate \/ Return

SpecProc == InitProc /\ [][NextProc]_vars

(***************************************************************************)
(* Claims about process_patients                                           *)
(***************************************************************************)
Range(l) == {l[i] : i \in 1..Len(l)}
NoDuplicates(l) == \A i, j \in 1..Len(l) : l[i] = l[j] => i = j

AnyInvalid(r) ==
    \/ ~calculate_bp_score(r.blood_pressure).valid
    \/ ~calculate_temp_score(r.temperature).valid
    \/ ~calculate_age_score(r.age).valid

TotalRisk(r) ==
    calculate_bp_score(r.blood_pressure).score
        + calculate_temp_score(r.temperature).score
        + calculate_age_score(r.age).score

Febrile(r) == has_fever(r.temperature).valid

RecordsOf(p) == {i \in 1..Len(patients) : patients[i].patient_id = p}

\* C3: when process_patients returns, a non-empty id is in data_quality_issues
\* iff one of its records has an invalid field, in fever iff one of its records
\* is febrile, in high_risk iff one of its records totals at least 4; the three
\* are decided independently and no list holds an id twice.
C3_Memberships ==
    proc_pc = "done" =>
        /\ \A p \in {q \in PatientIds : py_truthy(q)} :
              /\ p \in Range(returned[3]) <=> \E i \in RecordsOf(p) : AnyInvalid(patients[i])
              /\ p \in Range(returned[2]) <=> \E i \in RecordsOf(p) : Febrile(patients[i])
              /\ p \in Range(returned[1]) <=> \E i \in RecordsOf(p) : TotalRisk(patients[i]) >= 4
        /\ \A k \in 1..3 : NoDuplicates(returned[k])

C3_Witness ==
    /\ proc_pc = "done"
    /\ \E i \in 1..Len(patients) :
          /\ AnyInvalid(patients[i])
          /\ TotalRisk(patients[i]) >= 4
          /\ patients[i].patient_id \in Range(returned[1])
          /\ patients[i].patient_id \in Range(returned[3])

\* what a caller observes: the exception, or the three lists as sets
Observed(acc) ==
    IF acc.exc # "none" THEN <<"raised">>
    ELSE <<"returned", acc.high_risk, acc.fever, acc.data_quality>>

ObservedNow ==
    IF proc_pc = "raised" THEN <<"raised">>
    ELSE <<"returned", Range(returned[1]), Range(returned[2]), Range(returned[3])>>

Finished == proc_pc \in {"done", "raised"}

HasNoId(r) == r.patient_id \in {PyNone, PyStr(<<>>)}

RECURSIVE WithoutIdless(_)
WithoutIdless(list) ==
    IF Len(list) = 0 THEN <<>>
    ELSE IF HasNoId(Head(list)) THEN WithoutIdless(Tail(list))
    ELSE <<Head(list)>> \o WithoutIdless(Tail(list))

\* C4: a record whose patient_id is absent, null or empty contributes nothing:
\* the outcome equals the outcome for the list with those records removed.
C4_IdlessIgnored ==
    Finished => ObservedNow = Observed(process_patients(WithoutIdless(patients)))

C4_Witness ==
    /\ proc_pc = "done"
    /\ \E i \in 1..Len(patients) :
          /\ patients[i].patient_id = PyStr(<<>>)
          /\ TotalRisk(patients[i]) >= 4
          /\ AnyInvalid(patients[i])
    /\ returned = <<<<>>, <<>>, <<>>>>

Reorderings(list) ==
    {[i \in 1..Len(list) |-> list[f[i]]] :
        f \in {g \in [1..Len(list) -> 1..Len(list)] :
                  \A i, j \in 1..Len(list) : g[i] = g[j] => i = j}}

\* C8: every permutation of the patient list, and a second scoring of the list
\* itself, gives the same three sets.
C8_OrderInsensitive ==
    Finished => \A l \in Reorderings(patients) : Observed(process_patients(l)) = ObservedNow

C8_Witness ==
    /\ proc_pc = "done"
    /\ Len(patients) >= 2
    /\ patients[1].patient_id = patients[2].patient_id
    /\ TotalRisk(patients[1]) >= 4
    /\ TotalRisk(patients[2]) < 4
    /\ Len(returned[1]) = 1

\* C9: process_patients never raises, whatever fields are absent, null,
\* malformed or of an unexpected type.
C9_NeverRaises == proc_pc # "raised"

(***************************************************************************)
(* fetch_all_patients, submit_results and main                             *)
(***************************************************************************)
\* page size sent with every listing request
limit == 20

PageRecords ==
    { Patient(StrOf("p1"), BpOf(15000, 9500), PyNum(F(9800)), PyNum(F(7000))),
      Patient(StrOf("p2"), PyNone, PyNum(F(10200)), PyNum(F(3000))) }

PageData == UNION {[1..n -> PageRecords] : n \in 0..MaxPageLen}

\* a listing response: the status, the data array and pagination.hasNext
Responses ==
    {[ok |-> TRUE, data |-> d, hasNext |-> h] :
        d \in PageData, h \in {"true", "false", "missing"}}
    \cup {[ok |-> FALSE, data |-> <<>>, hasNext |-> "missing"]}

raise_for_status_ignored(response) == FALSE
raise_for_status(response) == ~response.ok

extend_front(all, more) == more \o all
extend(all, more) == all \o more

\* pagination.get("hasNext", False)
has_next(response) == response.hasNext = "true"

InitMain ==
    /\ pc = "fetch"
    /\ page = 1
    /\ all_patients = <<>>
    /\ requests = <<>>
    /\ responses = <<>>
    /\ scored = FALSE
    /\ submits = 0
    /\ payload = <<>>
    /\ IdleBP /\ IdleTemp /\ IdleProc

\* one turn of the loop of fetch_all_patients
FetchPage ==
    /\ pc = "fetch"
    /\ page <= MaxPages
    /\ \E response \in Responses :
          /\ requests' = Append(requests, [page |-> page, limit |-> limit])
          /\ responses' = Append(responses, response)
          /\ IF raise_for_status(response)
             THEN pc' = "aborted" /\ UNCHANGED <<page, all_patients>>
             ELSE /\ all_patients' = extend(all_patients, response.data)
                  /\ IF has_next(response)
                     THEN pc' = "fetch" /\ page' = page + 1
                     ELSE pc' = "process" /\ page' = page
    /\ UNCHANGED <<scored, submits, payload, bpVars, tempVars, procVars>>

\* main, step 2-3: score the patients fetched
Process ==
    /\ pc = "process"
    /\ LET acc == process_patients(all_patients)
       IN IF acc.exc # "none"
          THEN pc' = "aborted" /\ UNCHANGED <<scored, payload>>
          ELSE /\ pc' = "submit"
               /\ scored' = TRUE
               /\ \E hr \in ListsOf(acc.high_risk), fv \in ListsOf(acc.fever),
                     dq \in ListsOf(acc.data_quality) :
                     payload' = <<hr, fv, dq>>
    /\ UNCHANGED <<page, all_patients, requests, responses, submits,
                   bpVars, tempVars, procVars>>

\* submit_results: one POST, fatal when the response is not a success
Submit ==
    /\ pc = "submit"
    /\ submits' = submits + 1
    /\ \E ok \in BOOLEAN : pc' = IF ok THEN "done" ELSE "aborted"
    /\ UNCHANGED <<page, all_patients, requests, responses, scored, payload,
                   bpVars, tempVars, procVars>>

NextMain == FetchPage \/ Process \/ Submit

SpecMain == InitMain /\ [][NextMain]_vars

(***************************************************************************)
(* Claims about retrieval and the run                                      *)
(***************************************************************************)
RECURSIVE Concat(_)
Concat(rs) == IF Len(rs) = 0 THEN <<>> ELSE Head(rs).data \o Concat(Tail(rs))

AllSucceeded == \A i \in 1..Len(responses) : responses[i].ok
FetchReturned == pc # "fetch" /\ AllSucceeded

\* C1: request i asks for page i with limit 20; a request is issued only while
\* every earlier response succeeded with hasNext true; once the first response
\* without hasNext true has arrived the fetch has returned exactly the
\* concatenation of the data arrays, in page order.
C1_Pagination ==
    /\ Len(requests) = Len(responses)
    /\ \A i \in 1..Len(requests) : requests[i] = [page |-> i, limit |-> 20]
    /\ \A i \in 1..(Len(responses) - 1) : responses[i].ok /\ responses[i].hasNext = "true"
    /\ (AllSucceeded /\ Len(responses) > 0 /\ responses[Len(responses)].hasNext # "true")
          => (pc # "fetch" /\ all_patients = Concat(responses))
    /\ FetchReturned
          => (Len(responses) > 0 /\ responses[Len(responses)].hasNext # "true")

C1_Witness ==
    /\ FetchReturned
    /\ Len(requests) = 3
    /\ Len(all_patients) = 3
    /\ all_patients[1] # all_patients[2]

\* C2: a failed listing response ends the run: it is the last request, nothing
\* is scored and nothing is submitted; the submission is issued at most once
\* and only after a successful final page.
C2_AbortOnFailure ==
    /\ submits <= 1
    /\ ~AllSucceeded =>
          /\ pc = "aborted"
          /\ Len(requests) = Len(responses)
          /\ \A i \in 1..(Len(responses) - 1) : responses[i].ok
          /\ ~scored
          /\ submits = 0
    /\ (submits = 1 \/ scored) =>
          /\ AllSucceeded
          /\ Len(responses) > 0
          /\ responses[Len(responses)].hasNext # "true"

C2_Witness ==
    /\ pc = "aborted"
    /\ Len(responses) = 2
    /\ responses[1].ok
    /\ ~responses[2].ok
    /\ submits = 0

====
